---- MODULE Spec2Model ----
(***************************************************************************)
(* A model of kdbpy/compute/core.py: the rules that translate a blaze      *)
(* expression node, given its already translated operand(s), into a q      *)
(* expression, the symbol substitution pass (desubs) and literal coercion  *)
(* (qify).                                                                 *)
(*                                                                         *)
(* q expressions (module q, which core.py imports) are records:            *)
(*   Atom    [kind, s]            s: the text, split at its dots (a date   *)
(*                                or datetime literal included)            *)
(*   Symbol  [kind, s, part, nf]  part: is_partitioned, nf: has fields     *)
(*   str     [kind, v]            a python string placed in a q.List       *)
(*   num     [kind, n]            a python number                          *)
(*   Bool    [kind, b]                                                     *)
(*   List    [kind, xs]           xs: the items                            *)
(*   Dict    [kind, pairs]        the <<key, value>> pairs, in order       *)
(*   select  [kind, xs]           xs: <<'?', child, constraints, grouper,  *)
(*                                     aggregates>>                        *)
(* A raised exception is the value [kind |-> "err", class |-> its class].  *)
(***************************************************************************)
EXTENDS Integers, Sequences, FiniteSets, TLC

VARIABLES rule, arg, data, out, rows, steps

vars == <<rule, arg, data, out, rows, steps>>

(* ------------------------------ bounds --------------------------------- *)

\* Number of building steps that make a fragment handed to desubs.
MaxBuild == 3

\* Number of rules applied one over the other to a bound table.
MaxSteps == 3

\* Largest row count of the fragment a Head or a Slice is applied to.
MaxRows == 3

(* --------------------------- the q builders ---------------------------- *)

Atom(s) == [kind |-> "Atom", s |-> s]

Symbol(s) == [kind |-> "Symbol", s |-> s, part |-> FALSE, nf |-> FALSE]

TableSymbol(s, part, nf) == [kind |-> "Symbol", s |-> s, part |-> part, nf |-> nf]

Str(v) == [kind |-> "str", v |-> v]

Num(n) == [kind |-> "num", n |-> n]

Bool(b) == [kind |-> "Bool", b |-> b]

List(xs) == [kind |-> "List", xs |-> xs]

Dict(pairs) == [kind |-> "Dict", pairs |-> pairs]

\* q.select(child, constraints, grouper, aggregates): the four slots after '?'.
select(child, constraints, grouper, aggregates) ==
  [kind |-> "select", xs |-> <<Str("?"), child, constraints, grouper, aggregates>>]

\* The defaults of the slots q.select is not given.
NoConstraints == List(<<>>)

NoGrouper == Bool(FALSE)

NoAggregates == List(<<>>)

Err(class) == [kind |-> "err", class |-> class]

None == [kind |-> "None"]

IsAtom(x) == x.kind \in {"Atom", "Symbol"}

IsScalar(x) == x.kind \in {"str", "num", "Bool"}

IsList(x) == x.kind \in {"List", "select"}

child(x) == x.xs[2]

constraints(x) == x.xs[3]

grouper(x) == x.xs[4]

aggregates(x) == x.xs[5]

(* --------------------------- get and desubs ---------------------------- *)

\* A slip that takes the first element of every non-empty list.
get_first(x) == IF Len(x.xs) >= 1 THEN x.xs[1] ELSE x

\* get: the single element of a one-element list, or the list.
get(x) == IF Len(x.xs) = 1 THEN x.xs[1] ELSE x

\* A slip that removes the leading component of every dotted name.
compute_atom_any(atom, symbol) ==
  IF Len(atom.s) >= 2
  THEN IF atom.kind = "Symbol" THEN Symbol(Tail(atom.s)) ELSE Atom(Tail(atom.s))
  ELSE atom

\* compute_atom: s.split('.', 1); a dotted text whose first component is
\* `symbol` becomes type(atom)(the rest), every other atom is returned as is.
compute_atom(atom, symbol) ==
  IF Len(atom.s) >= 2 /\ Head(atom.s) = symbol
  THEN IF atom.kind = "Symbol" THEN Symbol(Tail(atom.s)) ELSE Atom(Tail(atom.s))
  ELSE atom

RECURSIVE desubs(_, _)
RECURSIVE _desubs(_, _)

\* `for sube in expr`: the items of a List or a select, the keys of a Dict.
iter(expr) ==
  IF expr.kind = "Dict" THEN [i \in 1..Len(expr.pairs) |-> expr.pairs[i][1]]
  ELSE expr.xs

\* _desubs: the generator, as the sequence it yields. A select met as an item
\* is a q.List and is rebuilt as one.
_desubs(expr, t) ==
  IF IsAtom(expr) THEN <<compute_atom(expr, t)>>
  ELSE IF IsScalar(expr) THEN <<expr>>
  ELSE [i \in 1..Len(iter(expr)) |->
         LET sube == iter(expr)[i] IN
         IF IsAtom(sube) THEN compute_atom(sube, t)
         ELSE IF IsList(sube)
              THEN List([j \in 1..Len(sube.xs) |-> desubs(sube.xs[j], t)])
         ELSE IF sube.kind = "Dict"
              THEN Dict([j \in 1..Len(sube.pairs) |->
                          <<desubs(sube.pairs[j][1], t), desubs(sube.pairs[j][2], t)>>])
         ELSE sube]

\* desubs: a select is rebuilt from the items after its '?', anything else (a
\* Dict included, of which only the keys were walked) as a q.List, and the
\* result goes through get.
desubs(expr, t) ==
  LET result == _desubs(expr, t) IN
  get(IF expr.kind = "select"
      THEN select(result[2], result[3], result[4], result[5])
      ELSE List(result))

(* ----------------------- the q function builders --------------------- *)

\* op(x): a unary operator or function of the unops table applied to x.
unop(op, x) == List(<<Atom(<<op>>), x>>)

\* op(x, y): a binary operator of the binops table applied to x and y.
binop(op, x, y) == List(<<Atom(<<op>>), x, y>>)

count(x) == unop("count", x)

til(x) == unop("til", x)

and_(x, y) == binop("&", x, y)

add(x, y) == binop("+", x, y)

sub(x, y) == binop("-", x, y)

take(n, x) == binop("#", n, x)

partake(x, idx) == binop(".Q.ind", x, idx)

slice(x, sym) == binop("slice", x, sym)

symlist(names) == List([i \in 1..Len(names) |-> Symbol(<<names[i]>>)])

\* q.sort(x, key, ascending)
sort(x, key, ascending) == List(<<Atom(<<"sort">>), x, Str(key), Bool(ascending)>>)

floor(x) == unop("floor", x)

long(x) == unop("long", x)

div(x, y) == binop("div", x, y)

mod(x, y) == binop("mod", x, y)

\* atom.s: the text of a name, its components joined by dots.
RECURSIVE dotted(_)
dotted(s) == IF Len(s) = 1 THEN s[1] ELSE s[1] \o "." \o dotted(Tail(s))

\* Symbol.__getitem__(name): the member `name` of the record the symbol names.
getitem(sym, name) == Symbol(Append(sym.s, name))

(* --------------------------- literal coercion -------------------------- *)

\* A datetime.date, a datetime.datetime, a python string (with what
\* pd.Timestamp makes of it: a datetime, or NoTimestamp for a ValueError) and a
\* python number.
PyDate(y, m, d) == [kind |-> "date", y |-> y, m |-> m, d |-> d]

PyDatetime(y, m, d, hh, mm, ss, us) ==
  [kind |-> "datetime", y |-> y, m |-> m, d |-> d,
   hh |-> hh, mm |-> mm, ss |-> ss, us |-> us]

NoTimestamp == [kind |-> "ValueError"]

\* text: the string, split at its dots.
PyStr(text, ts) == [kind |-> "basestring", text |-> text, ts |-> ts]

\* The decimal digits of n, zero-padded to width w: the strftime fields %m,
\* %d, %H, %M and %S (w = 2) and %f (w = 6).
RECURSIVE Pad(_, _)
Pad(n, w) == IF w = 0 THEN "" ELSE Pad(n \div 10, w - 1) \o ToString(n % 10)

\* The first year strftime formats; the code is Python 2 (basestring), whose
\* strftime raises ValueError for a year before 1900.
FirstYear == 1900

\* q.Atom(d.strftime('%Y.%m.%d')): the text, split at its dots; %Y is the
\* four digits of a year from 1900 on.
DateAtom(d) ==
  IF d.y < FirstYear THEN Err("ValueError")
  ELSE Atom(<<ToString(d.y), Pad(d.m, 2), Pad(d.d, 2)>>)

\* q.Atom(d.strftime('%Y.%m.%dD%H:%M:%S.%f000')): %f is the six digits of the
\* microsecond, followed by three zeros.
DatetimeAtom(d) ==
  IF d.y < FirstYear THEN Err("ValueError")
  ELSE Atom(<<ToString(d.y), Pad(d.m, 2),
              Pad(d.d, 2) \o "D" \o Pad(d.hh, 2) \o ":" \o Pad(d.mm, 2) \o ":" \o Pad(d.ss, 2),
              Pad(d.us, 6) \o "000">>)

\* d.date()
date(d) == PyDate(d.y, d.m, d.d)

\* pd.Timestamp(d.date()): midnight of that day.
Midnight(d) == PyDatetime(d.y, d.m, d.d, 0, 0, 0, 0)

\* into(q.Atom, date); the ValueError of strftime is not caught here.
into_date(d) == DateAtom(d)

\* into(q.Atom, datetime)
into_datetime(d) ==
  IF d = Midnight(d) THEN into_date(date(d)) ELSE DatetimeAtom(d)

\* qify: the try around a string catches the ValueError of pd.Timestamp and
\* the ValueError of strftime alike; nothing catches the one a date or a
\* datetime raises.
qify(x) ==
  IF x.kind = "basestring"
  THEN IF x.ts.kind = "datetime" /\ into_datetime(x.ts).kind # "err"
       THEN into_datetime(x.ts)
       ELSE List(<<Symbol(x.text)>>)
  ELSE IF x.kind = "datetime" THEN into_datetime(x)
  ELSE IF x.kind = "date" THEN into_date(x)
  ELSE x

(* ------------------------------ the rules ------------------------------ *)

\* Blaze expressions; _child (lhs for a BinOp) is the expression below a node:
\*   [e |-> "Symbol"]                                the leaf
\*   [e |-> "Field", _child, col]                    _child.col
\*   [e |-> "BinOp", op, lhs, rhs]                   lhs op rhs, rhs a literal
\*   [e |-> "Reduction", op, _child, axis]           _child.op(axis)
\*   [e |-> "Microsecond", _child]                   _child.microsecond
\*   [e |-> "Millisecond", _child]                   _child.millisecond
\*   [e |-> "Projection", _child, fields]            _child[fields]
\*   [e |-> "Selection", _child, predicate]          _child[predicate]
\*   [e |-> "Summary", _child, names, values]        summary(name=value, ...)
\*   [e |-> "By", _child, grouper, apply]            by(grouper, apply)
LeafE == [e |-> "Symbol"]

FieldE(c, col) == [e |-> "Field", _child |-> c, col |-> col]

BinOpE(op, lhs, rhs) == [e |-> "BinOp", op |-> op, lhs |-> lhs, rhs |-> rhs]

ReductionE(op, c, axis) == [e |-> "Reduction", op |-> op, _child |-> c, axis |-> axis]

MicrosecondE(c) == [e |-> "Microsecond", _child |-> c]

MillisecondE(c) == [e |-> "Millisecond", _child |-> c]

ProjectionE(c, fs) == [e |-> "Projection", _child |-> c, fields |-> fs]

SelectionE(c, predicate) == [e |-> "Selection", _child |-> c, predicate |-> predicate]

SummaryE(c, names, values) ==
  [e |-> "Summary", _child |-> c, names |-> names, values |-> values]

ByE(c, g, apply) == [e |-> "By", _child |-> c, grouper |-> g, apply |-> apply]

\* expr._leaves()[0]: the leaf itself, a blaze Symbol of a table and no
\* string; no component of a name compares equal to it.
LeafExpr == "Symbol('t', dshape)"

\* Field: data[name], and on a TypeError q.slice(data, sym).
compute_up_Field(name, x) ==
  IF x.kind = "Symbol" THEN getitem(x, name) ELSE slice(x, Symbol(<<name>>))

\* BinOp with one operand an expression (translated to x) and the other a
\* literal, on the side `literal` ("lhs" or "rhs").
compute_up_BinOp(op, literal, x, lit) ==
  IF qify(lit).kind = "err" THEN qify(lit)
  ELSE IF literal = "rhs" THEN binop(op, x, qify(lit)) ELSE binop(op, qify(lit), x)

\* A slip that accepts every axis.
compute_up_Reduction_anyaxis(op, axis, x) == unop(op, x)

compute_up_Reduction(op, axis, x) ==
  IF axis # <<0>> THEN Err("ValueError") ELSE unop(op, x)

compute_up_Microsecond(x) == floor(div(mod(long(x), Num(1000000000)), Num(1000)))

\* A slip that drops the data fragment's own select.
compute_up_Projection_flat(expr, x) ==
  select(IF x.kind = "select" THEN child(x) ELSE x, NoConstraints, NoGrouper,
         Dict([i \in 1..Len(expr.fields) |->
                <<Symbol(<<expr.fields[i]>>), Symbol(<<expr.fields[i]>>)>>]))

compute_up_Projection(expr, x) ==
  select(x, NoConstraints, NoGrouper,
         Dict([i \in 1..Len(expr.fields) |->
                <<Symbol(<<expr.fields[i]>>), Symbol(<<expr.fields[i]>>)>>]))

RECURSIVE compute(_, _, _)
RECURSIVE compute_up_Selection(_, _)
RECURSIVE compute_up_Selection_leaf(_, _)
RECURSIVE compute_up_Summary(_, _)
RECURSIVE compute_up_By(_, _)
RECURSIVE compute_up_By_wrap(_, _)
RECURSIVE compute_up_Millisecond(_, _)

\* blaze's compute(expr, {key: bound}), the driver of the composition: the
\* sub-expression `key` is bound to the fragment `bound`, which stands for the
\* translation of everything below; the nodes above it are translated
\* bottom-up, each by its rule; an exception raised by a rule ends the
\* translation.
\* compute(expr, o), with a fragment in place of the scope, is
\* compute(expr, LeafE, o): the fragment is bound to the one Symbol of expr,
\* its leaf, and every node above the leaf is translated, those a caller has
\* translated already included.
compute(expr, key, bound) ==
  IF expr = key THEN bound
  ELSE LET x == compute(IF expr.e = "BinOp" THEN expr.lhs ELSE expr._child, key, bound) IN
       IF x.kind = "err" THEN x
       ELSE IF expr.e = "Field" THEN compute_up_Field(expr.col, x)
       ELSE IF expr.e = "BinOp" THEN compute_up_BinOp(expr.op, "rhs", x, expr.rhs)
       ELSE IF expr.e = "Reduction" THEN compute_up_Reduction(expr.op, expr.axis, x)
       ELSE IF expr.e = "Microsecond" THEN compute_up_Microsecond(x)
       ELSE IF expr.e = "Millisecond" THEN compute_up_Millisecond(expr, x)
       ELSE IF expr.e = "Projection" THEN compute_up_Projection(expr, x)
       ELSE IF expr.e = "Selection" THEN compute_up_Selection(expr, x)
       ELSE IF expr.e = "Summary" THEN compute_up_Summary(expr, x)
       ELSE compute_up_By(expr, x)

\* compute(expr._child.microsecond // 1000, data): data is bound to the leaf
\* of expr._child.
compute_up_Millisecond(expr, x) ==
  compute(BinOpE("//", MicrosecondE(expr._child), Num(1000)), LeafE, x)

\* A slip that binds the predicate to the table the data fragment selects from.
compute_up_Selection_leaf(expr, x) ==
  LET predicate == compute(expr.predicate, expr._child,
                           IF x.kind = "select" THEN child(x) ELSE x)
  IN IF predicate.kind = "err" THEN predicate
     ELSE select(x, List(<<List(<<predicate>>)>>), NoGrouper, NoAggregates)

\* Selection: an exception raised while the predicate is translated leaves
\* the rule before any select is built.
compute_up_Selection(expr, x) ==
  LET predicate == compute(expr.predicate, expr._child, x)
  IN IF predicate.kind = "err" THEN predicate
     ELSE select(x, List(<<List(<<predicate>>)>>), NoGrouper, NoAggregates)

\* Summary: the scope handed to desubs is the expression's first leaf.
compute_up_Summary(expr, x) ==
  LET ops == [i \in 1..Len(expr.values) |-> compute(expr.values[i], expr._child, x)] IN
  IF \E i \in 1..Len(ops) : ops[i].kind = "err"
  THEN ops[CHOOSE i \in 1..Len(ops) : ops[i].kind = "err" /\ \A j \in 1..(i - 1) : ops[j].kind # "err"]
  ELSE desubs(select(x, NoConstraints, NoGrouper,
                     Dict([i \in 1..Len(ops) |-> <<Symbol(<<expr.names[i]>>), ops[i]>>])),
              LeafExpr)

\* A slip that never looks for a select to combine with.
compute_up_By_wrap(expr, x) ==
  LET g == compute(expr.grouper, LeafE, x)
      a == compute(expr.apply, LeafE, x)
  IN IF g.kind = "err" THEN g
     ELSE IF a.kind = "err" THEN a
     ELSE IF ~IsAtom(x) THEN Err("AttributeError")
     ELSE desubs(select(x, List(<<List(<<>>)>>),
                        Dict(<< <<Symbol(<<expr.grouper.col>>), g>> >>), aggregates(a)),
                 dotted(x.s))

\* By: the grouper and the apply are handed to compute with the fragment
\* `child` in place of a scope, which binds it to their leaf: what lies
\* between the leaf and expr._child is translated again over `child`.
\* expr.grouper is a Field, its _name the column's. child.s exists only on an
\* Atom: a child that is a List or a select ends in an AttributeError. The
\* scope handed to desubs is the text child.s, the whole name.
compute_up_By(expr, x) ==
  LET c == IF x.kind = "select" THEN child(x) ELSE x
      cs == IF x.kind = "select" THEN constraints(x) ELSE List(<<>>)
      g == compute(expr.grouper, LeafE, c)
      a == compute(expr.apply, LeafE, c)
  IN IF g.kind = "err" THEN g
     ELSE IF a.kind = "err" THEN a
     ELSE IF ~IsAtom(c) THEN Err("AttributeError")
     ELSE desubs(select(c, List(<<cs>>),
                        Dict(<< <<Symbol(<<expr.grouper.col>>), g>> >>), aggregates(a)),
                 dotted(c.s))

\* getattr(data, 'fields', ()): the named fields of a table symbol, the four
\* slot names of a select, nothing on a List.
fields(x) == IF x.kind = "Symbol" THEN x.nf ELSE x.kind = "select"

\* A slip that counts the data fragment whatever it is.
compute_down_nelements_plain(axis, x) ==
  IF axis # <<0>> THEN Err("ValueError") ELSE count(x)

compute_down_nelements(axis, x) ==
  IF axis # <<0>> THEN Err("ValueError")
  ELSE IF fields(x) /\ x.kind # "select" THEN count(Symbol(x.s))
  ELSE count(x)

\* nrows: expr._child.nrows is the element count over the leading axis.
nrows(x) == compute_down_nelements(<<0>>, x)

is_partitioned(x) == x.kind = "Symbol" /\ x.part

\* A slip that hands the requested n to take as it is.
compute_up_Head_raw(n, x) ==
  IF is_partitioned(x) THEN partake(x, til(Num(n))) ELSE take(Num(n), x)

compute_up_Head(n, x) ==
  LET final_index == and_(Num(n), nrows(x)) IN
  IF is_partitioned(x) THEN partake(x, til(final_index)) ELSE take(final_index, x)

\* compute_slice on an integer index; isrec: isrecord(dshape).
compute_slice_Integral(index, c, nr, isrec) ==
  LET i == IF index.n < 0 THEN add(index, nr) ELSE index
      qexpr == List(<<c, i>>)
  IN IF ~isrec THEN qexpr ELSE List(<<Str(",:"), qexpr>>)

\* compute_slice on a slice; index.start and index.stop are None or a number.
\* `x or y` is y when x is None and when x is 0.
compute_slice_slice(index, c, nr) ==
  LET start0 == IF index.start.kind = "None" \/ index.start.n = 0
                THEN Num(0) ELSE index.start
      stop0 == IF index.stop.kind = "None" \/ index.stop.n = 0
               THEN nr ELSE index.stop
      start == IF start0.n < 0 THEN add(start0, nr) ELSE start0
      stop == IF stop0.kind = "num" /\ stop0.n < 0 THEN add(stop0, nr) ELSE stop0
  IN List(<<Str("@"), c, add(start, til(sub(stop, start)))>>)

\* Slice: index is the tuple of the expression's indices.
compute_up_Slice(index, isrec, x) ==
  IF Len(index) # 1 THEN Err("AssertionError")
  ELSE IF index[1].kind = "slice" THEN compute_slice_slice(index[1], x, nrows(x))
  ELSE compute_slice_Integral(index[1], x, nrows(x), isrec)

\* A slip that forgets to compare the key columns.
compute_up_Join_anykeys(how, on_left, on_right, lhs, rhs) ==
  IF how # "inner" THEN Err("NotImplementedError")
  ELSE List(<<Str("ej"), symlist(on_left), lhs, rhs>>)

compute_up_Join(how, on_left, on_right, lhs, rhs) ==
  IF how # "inner" THEN Err("NotImplementedError")
  ELSE IF on_left # on_right THEN Err("NotImplementedError")
  ELSE List(<<Str("ej"), symlist(on_left), lhs, rhs>>)

compute_up_Distinct(x) == unop("distinct", x)

\* compute_down(Expr, QTable, QTable): the expression handed to the database
\* for a join of two tables, each leaf bound to its table's symbol.
compute_down_Expr_QTable_QTable(how, on_left, on_right, lhs, rhs) ==
  compute_up_Join(how, on_left, on_right, lhs, rhs)

\* compute_down(Field, QTable): the expression handed to the database for a
\* column of the table bound to the symbol x; splayed: x.is_splayed.
compute_down_Field(name, splayed, x) ==
  IF x.part \/ splayed THEN compute(ProjectionE(LeafE, <<name>>), LeafE, x)
  ELSE compute(FieldE(LeafE, name), LeafE, x)

compute_up_UnaryOp(op, x) == unop(op, x)

\* BinOp with both operands expressions.
compute_up_BinOp2(op, lhs, rhs) == binop(op, lhs, rhs)

compute_up_Sort(key, ascending, x) == sort(x, key, ascending)

\* qdatetimes.get(attr, attr)
qdatetimes(attr) ==
  IF attr = "day" THEN "dd"
  ELSE IF attr = "month" THEN "mm"
  ELSE IF attr = "hour" THEN "hh"
  ELSE IF attr = "second" THEN "ss"
  ELSE attr

\* data[attr]: the member of a symbol; indexing any other fragment with a
\* name is the TypeError the Field rule catches, and here nothing catches it.
compute_up_DateTime(attr, x) ==
  IF x.kind = "Symbol" THEN getitem(x, qdatetimes(attr)) ELSE Err("TypeError")

compute_up_Minute(x) ==
  IF x.kind = "Symbol" THEN mod(long(getitem(x, "minute")), Num(60))
  ELSE Err("TypeError")

(* ------------------- what the q expressions evaluate to ---------------- *)

Min(a, b) == IF a <= b THEN a ELSE b

\* The value of a numeric q expression over a fragment of r rows: count is r,
\* & of two numbers is their minimum.
RECURSIVE EvalNum(_, _)
EvalNum(e, r) ==
  IF e.kind = "num" THEN e.n
  ELSE IF e.xs[1] = Atom(<<"count">>) THEN r
  ELSE IF e.xs[1] = Atom(<<"&">>) THEN Min(EvalNum(e.xs[2], r), EvalNum(e.xs[3], r))
  ELSE IF e.xs[1] = Atom(<<"+">>) THEN EvalNum(e.xs[2], r) + EvalNum(e.xs[3], r)
  ELSE EvalNum(e.xs[2], r) - EvalNum(e.xs[3], r)

\* n#x over r rows: the row indices taken; take starts over at the first row
\* when n exceeds r.
TakeRows(n, r) == [i \in 1..n |-> IF r = 0 THEN 0 ELSE (i - 1) % r]

\* til n
TilRows(n) == [i \in 1..n |-> i - 1]

(* ------------------- the fragments handed to desubs -------------------- *)

Scopes == {"t", "u"}

Leaves ==
  { Symbol(<<"t", "a">>), Symbol(<<"t", "t", "a">>), Symbol(<<"u", "t", "a">>),
    Symbol(<<"a">>), Atom(<<"t", "a">>), Atom(<<"x">>),
    Str("first"), Num(1), List(<<>>), into_date(PyDate(2014, 1, 2)) }

\* What the building steps put beside the fragment built so far.
Fillers == {Symbol(<<"t", "b">>), Str("x")}

\* The select the By rule hands to desubs for by(c.b, total=c.a.sum()), with
\* c the Selection t[t.a > 1] (the clause list of the data inside a new List,
\* the grouper and the aggregate each a slice of the Selection translated
\* again, the aggregate's after the Summary rule's own desubs), and with c
\* the table t itself.
ByFragments ==
  LET t == Symbol(<<"t">>)
      pred == binop(">", Symbol(<<"t", "a">>), Num(1))
  IN { select(t, List(<<List(<<List(<<pred>>)>>)>>),
              Dict(<< <<Symbol(<<"b">>),
                        slice(select(t, List(<<List(<<pred>>)>>), NoGrouper, NoAggregates),
                              Symbol(<<"b">>))>> >>),
              Dict(<< <<Symbol(<<"total">>),
                        unop("sum",
                             slice(select(t, List(<<pred>>), NoGrouper, NoAggregates),
                                   Symbol(<<"a">>)))>> >>)),
       select(t, List(<<List(<<>>)>>),
              Dict(<< <<Symbol(<<"b">>), Symbol(<<"t", "b">>)>> >>),
              Dict(<< <<Symbol(<<"total">>), unop("sum", Symbol(<<"t", "a">>))>> >>)) }

RECURSIVE Depth(_)
Depth(f) ==
  IF f.kind \notin {"List", "select", "Dict"} THEN 0
  ELSE LET kids == IF f.kind = "Dict"
                   THEN {f.pairs[i][1] : i \in 1..Len(f.pairs)}
                          \cup {f.pairs[i][2] : i \in 1..Len(f.pairs)}
                   ELSE {f.xs[i] : i \in 1..Len(f.xs)}
           ds == {Depth(c) : c \in kids}
       IN IF ds = {} THEN 1 ELSE 1 + CHOOSE d \in ds : \A e \in ds : e <= d

\* Two kinds of place in a fragment. Handed to desubs: the fragment itself,
\* the elements of a List (or select) that is an item, the keys and values of
\* a Dict that is an item. Item: the items of a List or select handed to
\* desubs, the keys of a Dict handed to desubs (its values are never looked
\* at).
\*
\* ShapeKept(f), f handed to desubs: no place handed to desubs holds a Dict or
\* a List of exactly one element, and no item is a select.
RECURSIVE ShapeKept(_)
ShapeKept(f) ==
  IF IsAtom(f) \/ IsScalar(f) THEN TRUE
  ELSE IF f.kind = "Dict" THEN FALSE
  ELSE IF f.kind = "List" /\ Len(f.xs) = 1 THEN FALSE
  ELSE \A i \in 1..Len(f.xs) :
         LET c == f.xs[i] IN
         \/ IsAtom(c) \/ IsScalar(c)
         \/ c.kind = "List" /\ \A j \in 1..Len(c.xs) : ShapeKept(c.xs[j])
         \/ c.kind = "Dict" /\ \A j \in 1..Len(c.pairs) :
                                 ShapeKept(c.pairs[j][1]) /\ ShapeKept(c.pairs[j][2])

\* The name of an atom starts with s.s.
Repeats(x, s) == Len(x.s) >= 3 /\ x.s[1] = s /\ x.s[2] = s

\* Which fragments a second pass leaves alone, read off the fragment f the
\* first pass is given. A pass replaces a one-element List handed to desubs,
\* and a one-key Dict handed to desubs, by its only item (the collapse of
\* get); what lies below that item then changes place: its elements, handed
\* to desubs in the first pass, are items in the second, and the other way
\* round.
\*   Settles(f, s)      f handed to desubs in both passes
\*   SettlesItem(c, s)  c an item in both passes
\*   Exposed(c, s)      c an item in the first pass, its image handed to
\*                      desubs in the second
\*   Buried(x, s)       x handed to desubs in the first pass, its image an
\*                      item in the second
RECURSIVE Settles(_, _)
RECURSIVE SettlesItem(_, _)
RECURSIVE Exposed(_, _)
RECURSIVE Buried(_, _)

Settles(f, s) ==
  IF IsAtom(f) THEN ~Repeats(f, s)
  ELSE IF IsScalar(f) THEN TRUE
  ELSE IF f.kind # "select" /\ Len(iter(f)) = 1 THEN Exposed(iter(f)[1], s)
  ELSE \A i \in 1..Len(iter(f)) : SettlesItem(iter(f)[i], s)

SettlesItem(c, s) ==
  IF IsAtom(c) THEN ~Repeats(c, s)
  ELSE IF IsScalar(c) THEN TRUE
  ELSE IF c.kind = "Dict"
       THEN \A j \in 1..Len(c.pairs) : Settles(c.pairs[j][1], s) /\ Settles(c.pairs[j][2], s)
  ELSE \A j \in 1..Len(c.xs) : Settles(c.xs[j], s)

Exposed(c, s) ==
  IF IsAtom(c) THEN ~Repeats(c, s)
  ELSE IF IsScalar(c) THEN TRUE
  ELSE IF c.kind = "Dict" THEN FALSE
  ELSE Len(c.xs) # 1 /\ \A j \in 1..Len(c.xs) : Buried(c.xs[j], s)

Buried(x, s) ==
  IF IsAtom(x) THEN ~Repeats(x, s)
  ELSE IF IsScalar(x) THEN TRUE
  ELSE IF x.kind = "select" THEN FALSE
  ELSE IF Len(iter(x)) = 1 THEN SettlesItem(iter(x)[1], s)
  ELSE \A i \in 1..Len(iter(x)) : Exposed(iter(x)[i], s)

\* The structural rewrite of section 4.2: every dotted Symbol whose first
\* component is s loses it, everything else is unchanged, Lists and Dicts keep
\* their shape.
RECURSIVE StripSymbols(_, _)
StripSymbols(f, s) ==
  IF f.kind = "Symbol"
  THEN IF Len(f.s) >= 2 /\ f.s[1] = s THEN Symbol(Tail(f.s)) ELSE f
  ELSE IF f.kind = "Atom" \/ IsScalar(f) THEN f
  ELSE IF f.kind = "Dict"
       THEN Dict([i \in 1..Len(f.pairs) |->
                   <<StripSymbols(f.pairs[i][1], s), StripSymbols(f.pairs[i][2], s)>>])
  ELSE [kind |-> f.kind, xs |-> [i \in 1..Len(f.xs) |-> StripSymbols(f.xs[i], s)]]

\* The same rewrite applied to Atoms as well as Symbols.
RECURSIVE StripNames(_, _)
StripNames(f, s) ==
  IF IsAtom(f)
  THEN IF Len(f.s) >= 2 /\ f.s[1] = s
       THEN IF f.kind = "Symbol" THEN Symbol(Tail(f.s)) ELSE Atom(Tail(f.s))
       ELSE f
  ELSE IF IsScalar(f) THEN f
  ELSE IF f.kind = "Dict"
       THEN Dict([i \in 1..Len(f.pairs) |->
                   <<StripNames(f.pairs[i][1], s), StripNames(f.pairs[i][2], s)>>])
  ELSE [kind |-> f.kind, xs |-> [i \in 1..Len(f.xs) |-> StripNames(f.xs[i], s)]]

(* --------------------- specification: substitution --------------------- *)

NoArg == [scope |-> "-"]

InitSubst ==
  /\ data \in Leaves \cup ByFragments
  /\ rule = "build"
  /\ arg = NoArg
  /\ out = None
  /\ rows = 0
  /\ steps = 0

Built(f) ==
  /\ steps < MaxBuild
  /\ data' = f
  /\ rule' = "build"
  /\ arg' = NoArg
  /\ out' = None
  /\ steps' = steps + 1
  /\ UNCHANGED rows

\* q.List(data)
Wrap == Built(List(<<data>>))

\* q.List(data, l)
PairLeft == \E l \in Fillers : Built(List(<<data, l>>))

\* q.List(l, data)
PairRight == \E l \in Fillers : Built(List(<<l, data>>))

AppendLeaf ==
  /\ data.kind = "List"
  /\ \E l \in Fillers : Built(List(Append(data.xs, l)))

\* q.Dict([(key, data)])
InDict == Built(Dict(<< <<Symbol(<<"t", "k">>), data>> >>))

\* q.select(t, data, grouper, aggregates)
InSelect ==
  /\ data.kind = "List"
  /\ \E l \in Fillers :
       Built(select(Symbol(<<"t">>), data,
                    Dict(<< <<Symbol(<<"g">>), l>> >>),
                    Dict(<< <<Symbol(<<"v">>), List(<<Str("sum"), l>>)>> >>)))

Desubs ==
  /\ rule = "build"
  /\ \E s \in Scopes :
       /\ rule' = "desubs"
       /\ arg' = [scope |-> s]
       /\ out' = desubs(data, s)
  /\ UNCHANGED <<data, rows, steps>>

NextSubst ==
  Wrap \/ PairLeft \/ PairRight \/ AppendLeaf \/ InDict \/ InSelect \/ Desubs

SpecSubst == InitSubst /\ [][NextSubst]_vars

\* C9 as stated: strip_scope is the structural rewrite that strips the dotted
\* Symbols of scope s and changes nothing else, whatever the fragment.
C9_AsStated == rule = "desubs" => out = StripSymbols(data, arg.scope)

\* C9, amended: strip_scope(f, s) is the structural rewrite that strips the
\* first component of every dotted Atom or Symbol whose first component is s
\* (keeping every List length, nesting depth, Dict order and pairing) exactly
\* when no place of f handed to desubs holds a Dict or a one-element List and
\* no item of f is a select. Where it is not: a one-element List handed to
\* desubs is replaced by what its only item becomes, while a one-element List
\* that is an item keeps its length; a Dict handed to desubs is replaced by its
\* keys; a select that is an item becomes a plain List of its five items.
C9_Structural ==
  rule = "desubs"
    => /\ out = StripNames(data, arg.scope) <=> ShapeKept(data)
       /\ (data.kind = "List" /\ Len(data.xs) = 1)
            => LET c == data.xs[1] IN
               IF IsAtom(c) \/ IsScalar(c) THEN out = StripNames(c, arg.scope)
               ELSE IF c.kind = "Dict"
                    THEN out.kind = "Dict" /\ Len(out.pairs) = Len(c.pairs)
               ELSE out.kind = "List" /\ Len(out.xs) = Len(c.xs)
       /\ data.kind = "Dict"
            => IF Len(data.pairs) = 1
               THEN (IsAtom(data.pairs[1][1])
                       => out = StripNames(data.pairs[1][1], arg.scope))
               ELSE out.kind = "List" /\ Len(out.xs) = Len(data.pairs)
       /\ (IsList(data) /\ (data.kind = "select" \/ Len(data.xs) # 1))
            => /\ out.kind = data.kind
               /\ Len(out.xs) = Len(data.xs)
               /\ \A i \in 1..Len(data.xs) :
                    /\ data.xs[i].kind = "select"
                         => out.xs[i].kind = "List" /\ Len(out.xs[i].xs) = 5
                    /\ data.xs[i].kind = "List"
                         => out.xs[i].kind = "List"
                              /\ Len(out.xs[i].xs) = Len(data.xs[i].xs)

C9_Witness ==
  /\ rule = "desubs"
  /\ IsList(data)
  /\ ShapeKept(data)
  /\ \E i \in 1..Len(data.xs) :
       data.xs[i].kind = "List" /\ Len(data.xs[i].xs) = 1
  /\ Depth(data) >= 2
  /\ out # data
  /\ out = StripNames(data, arg.scope)

\* C5 as stated: stripping a second time changes nothing, whatever the
\* fragment and the names in it.
C5_AsStated == rule = "desubs" => desubs(out, arg.scope) = out

\* C5, amended: stripping a second time changes nothing exactly when (1) no
\* Atom or Symbol the walk reaches has a name that starts with s.s, and (2) no
\* collapse of the first pass (a one-element List, or a one-key Dict, handed
\* to desubs is replaced by its only item) leaves a Dict or a one-element List
\* handed to desubs in the second pass, or a select as an item in the second
\* pass.
C5_Idempotent ==
  rule = "desubs" => (desubs(out, arg.scope) = out <=> Settles(data, arg.scope))

C5_Witness ==
  /\ rule = "desubs"
  /\ data.kind = "select"
  /\ Settles(data, arg.scope)
  /\ constraints(data) = List(<<List(<<>>)>>)
  /\ out # data
  /\ desubs(out, arg.scope) = out

(* ---------------- specification: bottom-up composition ----------------- *)

\* The name the leaf of the expression is bound under.
Leaf == "t"

Columns == {"a", "b"}

FieldLists == {<<"a">>, <<"b", "a">>}

\* The predicates, summaries and groupings written over the expression c;
\* the last predicate compares a reduction over the second axis, and the last
\* summary reduces over it.
Predicates(c) ==
  { BinOpE(">", FieldE(c, "a"), Num(1)),
    BinOpE("=", FieldE(c, "b"), PyStr(<<"Alice">>, NoTimestamp)),
    FieldE(c, "c"),
    BinOpE(">", ReductionE("sum", FieldE(c, "a"), <<1>>), Num(1)) }

Summaries(c) ==
  { SummaryE(c, <<"total">>, <<ReductionE("sum", FieldE(c, "a"), <<0>>)>>),
    SummaryE(c, <<"hi", "lo">>,
             <<ReductionE("max", FieldE(c, "a"), <<0>>),
               ReductionE("min", FieldE(c, "b"), <<0>>)>>),
    SummaryE(c, <<"total">>, <<ReductionE("sum", FieldE(c, "a"), <<1>>)>>) }

\* arg is the expression translated so far, out its translation.
Init ==
  /\ rule = "leaf"
  /\ arg = LeafE
  /\ data = None
  /\ out \in {TableSymbol(<<Leaf>>, part, TRUE) : part \in BOOLEAN}
  /\ rows = 0
  /\ steps = 0

\* One rule applied to the fragment translated so far; an exception ends the
\* translation.
Apply(expr, result) ==
  /\ steps < MaxSteps
  /\ out.kind # "err"
  /\ rule' = expr.e
  /\ arg' = expr
  /\ data' = out
  /\ out' = result
  /\ steps' = steps + 1
  /\ UNCHANGED rows

Projection ==
  \E fs \in FieldLists :
    Apply(ProjectionE(arg, fs), compute_up_Projection(ProjectionE(arg, fs), out))

Selection ==
  \E pr \in Predicates(arg) :
    Apply(SelectionE(arg, pr), compute_up_Selection(SelectionE(arg, pr), out))

Summary == \E sm \in Summaries(arg) : Apply(sm, compute_up_Summary(sm, out))

By ==
  \E g \in Columns, sm \in Summaries(arg) :
    Apply(ByE(arg, FieldE(arg, g), sm), compute_up_By(ByE(arg, FieldE(arg, g), sm), out))

Next == Projection \/ Selection \/ Summary \/ By

Spec == Init /\ [][Next]_vars

\* The predicates of a constraints slot: the items of its clause lists.
Clauses(cs) ==
  UNION {{cs.xs[i].xs[j] : j \in 1..Len(cs.xs[i].xs)} : i \in 1..Len(cs.xs)}

\* The fragment the Selection rule makes of a bare table symbol.
FromSelection(x) ==
  /\ x.kind = "select"
  /\ child(x).kind = "Symbol" /\ child(x).s = <<Leaf>>
  /\ Len(constraints(x).xs) = 1 /\ Len(constraints(x).xs[1].xs) = 1
  /\ grouper(x) = NoGrouper
  /\ aggregates(x) = NoAggregates

\* Every reduction of a summary is over the leading axis.
AxisZero(apply) == \A i \in 1..Len(apply.values) : apply.values[i].axis = <<0>>

\* The predicate compares a reduction over an axis other than the leading one.
OffAxis(predicate) ==
  /\ predicate.e = "BinOp"
  /\ predicate.lhs.e = "Reduction"
  /\ predicate.lhs.axis # <<0>>

\* The aggregates of a summary of columns of the table: each name with its
\* reduction applied to the column, no table name before it.
ExpectedAggregates(apply) ==
  Dict([i \in 1..Len(apply.values) |->
         <<Symbol(<<apply.names[i]>>),
           List(<<Atom(<<apply.values[i].op>>), Symbol(<<apply.values[i]._child.col>>)>>)>>])

\* The number of select nodes of a fragment.
RECURSIVE Selects(_)
RECURSIVE SelectsIn(_)
Selects(f) ==
  IF IsAtom(f) \/ IsScalar(f) THEN 0
  ELSE IF f.kind = "Dict"
       THEN SelectsIn([i \in 1..(2 * Len(f.pairs)) |-> f.pairs[(i + 1) \div 2][2 - (i % 2)]])
  ELSE (IF f.kind = "select" THEN 1 ELSE 0) + SelectsIn(f.xs)

SelectsIn(xs) == IF xs = <<>> THEN 0 ELSE Selects(Head(xs)) + SelectsIn(Tail(xs))

\* C3 as stated: no output of the Projection, Selection, Summary and By rules
\* is a select whose child slot is itself a select.
C3_AsStated ==
  (rule \in {"Projection", "Selection", "Summary", "By"} /\ out.kind = "select")
    => child(out).kind # "select"

\* C3, amended: only the By rule merges. Projection builds a new select whose
\* child is the data fragment, whatever that is; so does Selection, unless the
\* translation of its predicate raises (a reduction over another axis than
\* the leading one), and then the rule raises the same and builds nothing. By
\* over a select of a table symbol gives one select of that symbol which keeps
\* the clauses of the data fragment's constraints, when every reduction of its
\* apply is over the leading axis, and raises ValueError otherwise. Summary
\* over a select keeps the select form ('?' and its slots, rebuilt as a List)
\* as the child of its select, when every reduction is over the leading axis,
\* and raises ValueError otherwise.
C3_OnlyByMerges ==
  /\ rule = "Projection"
       => out.kind = "select" /\ child(out) = data
  /\ rule = "Selection"
       => IF OffAxis(arg.predicate) THEN out = [kind |-> "err", class |-> "ValueError"]
          ELSE out.kind = "select" /\ child(out) = data
  /\ (rule = "By" /\ data.kind = "select" /\ IsAtom(child(data)))
       => IF AxisZero(arg.apply)
          THEN /\ out.kind = "select"
               /\ child(out) = child(data)
               /\ Clauses(constraints(out))
                    = {StripNames(pr, Leaf) : pr \in Clauses(constraints(data))}
          ELSE out = [kind |-> "err", class |-> "ValueError"]
  /\ (rule = "Summary" /\ data.kind = "select")
       => IF AxisZero(arg)
          THEN /\ out.kind = "select"
               /\ IsList(child(out))
               /\ child(out).xs[1] = Str("?")
               /\ Len(child(out).xs) = 5
          ELSE out = [kind |-> "err", class |-> "ValueError"]

C3_Witness ==
  /\ rule = "By"
  /\ data.kind = "select"
  /\ Clauses(constraints(data)) # {}
  /\ out.kind = "select"
  /\ child(out).kind = "Symbol"

\* The select form the By rule leaves inside its grouper for a grouping over
\* the fragment x a Selection made: '?', the table, the clause list with the
\* predicate stripped of the table name, no grouper, no aggregates.
NestedForm(x) ==
  <<Str("?"), child(x), List(<<StripNames(constraints(x).xs[1].xs[1], Leaf)>>),
    Bool(FALSE), List(<<>>)>>

\* The same form as the two passes of desubs leave it inside an aggregate (the
\* Summary rule's pass, then the By rule's): a one-element List among the
\* items of the clause, the symbol list of a string literal, is replaced by
\* its element.
Collapsed(p) ==
  IF p.kind # "List" THEN p
  ELSE List([i \in 1..Len(p.xs) |->
              IF p.xs[i].kind = "List" /\ Len(p.xs[i].xs) = 1 THEN p.xs[i].xs[1]
              ELSE p.xs[i]])

AggregateForm(x) ==
  <<Str("?"), child(x),
    List(<<Collapsed(StripNames(constraints(x).xs[1].xs[1], Leaf))>>),
    Bool(FALSE), List(<<>>)>>

RECURSIVE LeafSymbol(_)
LeafSymbol(x) == IF x.kind = "Symbol" THEN x ELSE LeafSymbol(child(x))

\* The column reference of a translated predicate.
ColumnRef(predicate, translated) ==
  IF predicate.e = "Field" THEN translated ELSE translated.xs[2]

\* The column a predicate refers to.
PredicateColumn(predicate) ==
  IF predicate.e = "Field" THEN predicate.col ELSE predicate.lhs.col

\* The one clause a Selection put around its data fragment.
OneClause(x) ==
  /\ x.kind = "select"
  /\ child(x) = data
  /\ Len(constraints(x).xs) = 1 /\ Len(constraints(x).xs[1].xs) = 1
  /\ grouper(x) = NoGrouper
  /\ aggregates(x) = NoAggregates

\* C10 as stated, for the predicates whose translation raises nothing: the
\* predicate's column reference is bound to the original table binding of the
\* leaf, whatever the data fragment.
C10_AsStated ==
  (rule = "Selection" /\ ~OffAxis(arg.predicate))
    => /\ OneClause(out)
       /\ ColumnRef(arg.predicate, constraints(out).xs[1].xs[1])
            = getitem(LeafSymbol(data), PredicateColumn(arg.predicate))

\* C10, amended: the predicate is translated with its column reference bound
\* to the data fragment handed to the rule: the member of the table symbol
\* when the data is the bare table symbol, a slice of the select when the data
\* is a select; the result wraps the data fragment with exactly one new
\* conjunctive clause holding that predicate. When the translation of the
\* predicate raises (a reduction over another axis than the leading one) the
\* rule raises ValueError and wraps nothing.
C10_BoundToData ==
  rule = "Selection"
    => IF OffAxis(arg.predicate) THEN out = [kind |-> "err", class |-> "ValueError"]
       ELSE /\ OneClause(out)
            /\ ColumnRef(arg.predicate, constraints(out).xs[1].xs[1])
                 = IF data.kind = "Symbol"
                   THEN Symbol(Append(data.s, PredicateColumn(arg.predicate)))
                   ELSE List(<<Atom(<<"slice">>), data,
                               Symbol(<<PredicateColumn(arg.predicate)>>)>>)

C10_Witness ==
  /\ rule = "Selection"
  /\ data.kind = "select"
  /\ ~OffAxis(arg.predicate)
  /\ OneClause(out)

(* ------------------- specification: Head and Slice --------------------- *)

\* The bounds of a slice over r rows: None, or an integer of -r..r.
SliceBounds(r) == {None} \cup {Num(i) : i \in (0 - r)..r}

PySlice(start, stop) == [kind |-> "slice", start |-> start, stop |-> stop]

InitRows ==
  /\ rule = "leaf"
  /\ arg = NoArg
  /\ data = None
  /\ out \in {TableSymbol(<<Leaf>>, part, nf) : part \in BOOLEAN, nf \in BOOLEAN}
  /\ rows \in 0..MaxRows
  /\ steps = 0

\* A rule applied to the table symbol; rows is the row count of the table.
ApplyRows(name, a, result) ==
  /\ rule = "leaf"
  /\ rule' = name
  /\ arg' = a
  /\ data' = out
  /\ out' = result
  /\ UNCHANGED <<rows, steps>>

RowsHead ==
  \E n \in 0..(MaxRows + 1) :
    ApplyRows("Head", [n |-> n], compute_up_Head(n, out))

RowsSlice ==
  \E a \in SliceBounds(rows), b \in SliceBounds(rows) :
    ApplyRows("Slice", [index |-> <<PySlice(a, b)>>],
              compute_up_Slice(<<PySlice(a, b)>>, TRUE, out))

RowsIndex ==
  \E i \in (0 - rows)..(rows - 1), isrec \in BOOLEAN :
    ApplyRows("Index", [index |-> <<Num(i)>>, isrec |-> isrec],
              compute_up_Slice(<<Num(i)>>, isrec, out))

RowsIndices ==
  \E i \in 0..(rows - 1) :
    ApplyRows("Indices", [index |-> <<Num(i), Num(0)>>],
              compute_up_Slice(<<Num(i), Num(0)>>, TRUE, out))

NextRows == RowsHead \/ RowsSlice \/ RowsIndex \/ RowsIndices

SpecRows == InitRows /\ [][NextRows]_vars

\* The count a Head fragment hands to take (or to til, under partake).
HeadCount(x) == IF x.xs[1] = Atom(<<".Q.ind">>) THEN x.xs[3].xs[2] ELSE x.xs[2]

\* C1: the Head rule hands min(n, rowcount) to take, never the raw n, in the
\* ordinary branch (n#data) and in the partitioned branch (.Q.ind over til),
\* so the rows selected are the first min(n, r), none repeated.
C1_HeadClamps ==
  rule = "Head"
    => /\ EvalNum(HeadCount(out), rows) = Min(arg.n, rows)
       /\ HeadCount(out) # Num(arg.n)
       /\ IF is_partitioned(data)
          THEN /\ out.xs[1] = Atom(<<".Q.ind">>)
               /\ out.xs[2] = data
               /\ out.xs[3].xs[1] = Atom(<<"til">>)
               /\ TilRows(EvalNum(HeadCount(out), rows))
                    = [i \in 1..Min(arg.n, rows) |-> i - 1]
          ELSE /\ out.xs[1] = Atom(<<"#">>)
               /\ out.xs[3] = data
               /\ TakeRows(EvalNum(HeadCount(out), rows), rows)
                    = [i \in 1..Min(arg.n, rows) |-> i - 1]

C1_Witness ==
  /\ rule = "Head"
  /\ arg.n > rows
  /\ rows > 0
  /\ is_partitioned(data)
  /\ EvalNum(HeadCount(out), rows) = rows

\* A slice bound normalised on its own: the default when absent, the bound
\* plus the row count when negative, the bound otherwise.
Normalised(b, default, r) ==
  IF b.kind = "None" THEN default ELSE IF b.n < 0 THEN b.n + r ELSE b.n

\* C2: the start offset of a translated range [a:b] is a' and its length is
\* b' - a', each bound normalised on its own (0 included).
C2_AsStated ==
  rule = "Slice"
    => LET a == arg.index[1].start
           b == arg.index[1].stop
           offsets == out.xs[3]
       IN /\ EvalNum(offsets.xs[2], rows) = Normalised(a, 0, rows)
          /\ EvalNum(offsets.xs[3].xs[2], rows)
               = Normalised(b, rows, rows) - Normalised(a, 0, rows)

(* -------------- specification: Join, Reduction and count --------------- *)

Hows == {"inner", "left", "outer"}

KeyLists == {<<"a">>, <<"b">>, <<"a", "b">>}

Axes == {<<0>>, <<1>>, <<0, 1>>, <<>>}

ReductionOps == {"sum", "max"}

UnaryOps == {"neg", "sqrt"}

BinaryOps == {"+", ">"}

DateTimeAttrs == {"day", "month", "hour", "second", "year"}

\* Translated operands: a table with named fields, a symbol without, a
\* column of the table, a filter of the table.
Operands ==
  { TableSymbol(<<Leaf>>, FALSE, TRUE),
    TableSymbol(<<Leaf>>, TRUE, TRUE),
    TableSymbol(<<"v">>, FALSE, FALSE),
    Symbol(<<Leaf, "a">>),
    compute(SelectionE(LeafE, BinOpE(">", FieldE(LeafE, "a"), Num(1))), LeafE,
            TableSymbol(<<Leaf>>, FALSE, TRUE)) }

RightOperands ==
  { TableSymbol(<<"u">>, FALSE, TRUE),
    compute(SelectionE(LeafE, FieldE(LeafE, "c")), LeafE, TableSymbol(<<"u">>, FALSE, TRUE)) }

InitRules ==
  /\ rule = "leaf"
  /\ arg = NoArg
  /\ data = None
  /\ out \in Operands
  /\ rows = 0
  /\ steps = 0

ApplyRule(name, a, result) ==
  /\ rule = "leaf"
  /\ rule' = name
  /\ arg' = a
  /\ data' = out
  /\ out' = result
  /\ UNCHANGED <<rows, steps>>

Join ==
  \E how \in Hows, l \in KeyLists, r \in KeyLists, rhs \in RightOperands :
    ApplyRule("Join", [how |-> how, on_left |-> l, on_right |-> r, rhs |-> rhs],
              compute_up_Join(how, l, r, out, rhs))

Reduction ==
  \E op \in ReductionOps, axis \in Axes :
    ApplyRule("Reduction", [op |-> op, axis |-> axis],
              compute_up_Reduction(op, axis, out))

Nelements ==
  \E axis \in Axes :
    ApplyRule("nelements", [axis |-> axis], compute_down_nelements(axis, out))

Distinct == ApplyRule("Distinct", NoArg, compute_up_Distinct(out))

UnaryOp ==
  \E op \in UnaryOps : ApplyRule("UnaryOp", [op |-> op], compute_up_UnaryOp(op, out))

BinOp ==
  \E op \in BinaryOps, rhs \in RightOperands :
    ApplyRule("BinOp", [op |-> op, rhs |-> rhs], compute_up_BinOp2(op, out, rhs))

Sort ==
  \E key \in Columns, ascending \in BOOLEAN :
    ApplyRule("Sort", [key |-> key, ascending |-> ascending],
              compute_up_Sort(key, ascending, out))

DateTime ==
  \E attr \in DateTimeAttrs :
    ApplyRule("DateTime", [attr |-> attr], compute_up_DateTime(attr, out))

Microsecond == ApplyRule("Microsecond", NoArg, compute_up_Microsecond(out))

\* Millisecond of the leaf, or of a column of it.
Millisecond ==
  \E c \in {LeafE, FieldE(LeafE, "a")} :
    ApplyRule("Millisecond", MillisecondE(c), compute_up_Millisecond(MillisecondE(c), out))

\* A join of two tables bound to their symbols.
DownJoin ==
  /\ out.kind = "Symbol" /\ Len(out.s) = 1
  /\ \E how \in Hows, l \in KeyLists, r \in KeyLists, part \in BOOLEAN :
       LET rhs == TableSymbol(<<"u">>, part, TRUE) IN
       ApplyRule("compute_down", [how |-> how, on_left |-> l, on_right |-> r, rhs |-> rhs],
                 compute_down_Expr_QTable_QTable(how, l, r, out, rhs))

\* A column of a table bound to its symbol.
DownField ==
  /\ out.kind = "Symbol" /\ Len(out.s) = 1
  /\ \E name \in Columns, splayed \in BOOLEAN :
       ApplyRule("compute_down", [name |-> name, splayed |-> splayed],
                 compute_down_Field(name, splayed, out))

Minute == ApplyRule("Minute", NoArg, compute_up_Minute(out))

NextRules ==
  \/ Join \/ Reduction \/ Nelements \/ Distinct
  \/ UnaryOp \/ BinOp \/ Sort \/ DateTime \/ Microsecond \/ Millisecond \/ Minute
  \/ DownField \/ DownJoin

SpecRules == InitRules /\ [][NextRules]_vars

\* C6: the Join rule returns a fragment exactly when the join is inner and
\* the key column lists are equal; otherwise it raises and returns nothing;
\* the fragment is ej, the key list, the left operand, the right operand.
C6_JoinSupported ==
  rule = "Join"
    => /\ out.kind # "err" <=> (arg.how = "inner" /\ arg.on_left = arg.on_right)
       /\ out.kind = "err" => out = [kind |-> "err", class |-> "NotImplementedError"]
       /\ out.kind # "err"
            => out = List(<<Str("ej"),
                            List([i \in 1..Len(arg.on_left) |-> Symbol(<<arg.on_left[i]>>)]),
                            data, arg.rhs>>)

C6_Witness ==
  /\ rule = "Join"
  /\ arg.how = "inner"
  /\ arg.on_left = <<"a", "b">>
  /\ out.kind = "List"

\* C7: a Reduction or an element count over an axis other than (0,) raises
\* and yields no fragment; over (0,) the Reduction is the operator applied to
\* the data, and the count is of a symbol reference to the table when the data
\* is a table symbol with named fields, of the data fragment otherwise.
C7_LeadingAxisOnly ==
  /\ rule = "Reduction"
       => IF arg.axis # <<0>> THEN out.kind = "err"
          ELSE out = List(<<Atom(<<arg.op>>), data>>)
  /\ rule = "nelements"
       => IF arg.axis # <<0>> THEN out.kind = "err"
          ELSE IF data.kind = "Symbol" /\ data.nf
               THEN out = List(<<Atom(<<"count">>), Symbol(data.s)>>)
               ELSE out = List(<<Atom(<<"count">>), data>>)

C7_Witness ==
  /\ rule = "nelements"
  /\ arg.axis = <<0>>
  /\ data.kind = "Symbol" /\ data.nf /\ data.part
  /\ out = List(<<Atom(<<"count">>), Symbol(data.s)>>)
  /\ out.xs[2] # data

(* ------------------ specification: literal coercion -------------------- *)

\* Two days strftime formats and one, before 1900, it does not.
Days == {PyDate(2014, 1, 2), PyDate(1999, 12, 31), PyDate(1899, 12, 31)}

Hours == {0, 13}

Minutes == {0, 30}

Seconds == {0, 59}

Microseconds == {0, 1}

Datetimes ==
  {PyDatetime(d.y, d.m, d.d, hh, mm, ss, us) :
     d \in Days, hh \in Hours, mm \in Minutes, ss \in Seconds, us \in Microseconds}

\* The strings pd.Timestamp reads as these datetimes, and two it rejects.
Strings ==
  {PyStr(<<"ts">>, d) : d \in Datetimes}
    \cup {PyStr(<<"Alice">>, NoTimestamp), PyStr(<<"t", "name">>, NoTimestamp)}

Literals == Days \cup Datetimes \cup Strings \cup {Num(1), Bool(TRUE)}

InitLit ==
  /\ rule = "literal"
  /\ arg = NoArg
  /\ data \in Literals
  /\ out = None
  /\ rows = 0
  /\ steps = 0

Qify ==
  /\ rule = "literal"
  /\ rule' = "qify"
  /\ out' = qify(data)
  /\ UNCHANGED <<arg, data, rows, steps>>

\* A comparison of the column t.a with the literal, on either side.
LiteralBinOp ==
  /\ rule = "literal"
  /\ \E side \in {"lhs", "rhs"} :
       /\ rule' = "BinOp"
       /\ arg' = [scope |-> side]
       /\ out' = compute_up_BinOp("=", side, Symbol(<<Leaf, "a">>), data)
  /\ UNCHANGED <<data, rows, steps>>

NextLit == Qify \/ LiteralBinOp

SpecLit == InitLit /\ [][NextLit]_vars

\* The date literal of the target's grammar: yyyy.mm.dd.
DateLiteral(y, m, d) == [kind |-> "Atom", s |-> <<ToString(y), Pad(m, 2), Pad(d, 2)>>]

\* The literal of a datetime under the claim's rule: a date literal at
\* midnight, a datetime literal yyyy.mm.ddDHH:MM:SS.nnnnnnnnn otherwise.
ClaimedLiteral(d) ==
  IF d.hh = 0 /\ d.mm = 0 /\ d.ss = 0 /\ d.us = 0
  THEN DateLiteral(d.y, d.m, d.d)
  ELSE [kind |-> "Atom",
        s |-> <<ToString(d.y), Pad(d.m, 2),
                Pad(d.d, 2) \o "D" \o Pad(d.hh, 2) \o ":" \o Pad(d.mm, 2)
                  \o ":" \o Pad(d.ss, 2),
                Pad(1000 * d.us, 9)>>]

\* C8: a datetime is coerced to a date literal exactly when its time of day
\* is midnight, to a datetime literal otherwise; a date always to a date
\* literal; a string that parses as a timestamp by the same rule, one that
\* does not to a one-element list of the symbol of that string; anything else
\* is returned unchanged.
C8_AsStated ==
  rule = "qify"
    => IF data.kind = "datetime" THEN out = ClaimedLiteral(data)
       ELSE IF data.kind = "date" THEN out = DateLiteral(data.y, data.m, data.d)
       ELSE IF data.kind = "basestring"
            THEN IF data.ts.kind = "datetime" THEN out = ClaimedLiteral(data.ts)
                 ELSE out = [kind |-> "List",
                             xs |-> <<[kind |-> "Symbol", s |-> data.text,
                                       part |-> FALSE, nf |-> FALSE]>>]
       ELSE out = data

\* C8, what the code does: the claim's rule holds from the year 1900 on; a
\* date or a datetime of an earlier year raises ValueError, and a string that
\* parses as a timestamp of an earlier year becomes a one-element list of the
\* symbol of that string.
C8_FromFirstYear ==
  rule = "qify"
    => IF data.kind \in {"date", "datetime"}
       THEN IF data.y < 1900 THEN out = [kind |-> "err", class |-> "ValueError"]
            ELSE out = ClaimedLiteral(IF data.kind = "date" THEN Midnight(data) ELSE data)
       ELSE IF data.kind = "basestring"
            THEN IF data.ts.kind = "datetime" /\ data.ts.y >= 1900
                 THEN out = ClaimedLiteral(data.ts)
                 ELSE out = [kind |-> "List",
                             xs |-> <<[kind |-> "Symbol", s |-> data.text,
                                       part |-> FALSE, nf |-> FALSE]>>]
       ELSE out = data

\* A date before 1900 handed to qify, and the exception it ends in.
C8_Witness ==
  /\ rule = "qify"
  /\ data = PyDate(1899, 12, 31)
  /\ out = [kind |-> "err", class |-> "ValueError"]

====
